---- MODULE Spec2Model ----
(***************************************************************************)
(* Model of main.py of git-diff-analyzer: the diff resolver                *)
(* (get_diff_with_main, get_diff_for_branch_naming, get_staged_diff), the  *)
(* three prompt/response formatters and the command dispatch of main().    *)
(*                                                                         *)
(* Text is a sequence of one-character strings, so that str.strip and      *)
(* str.replace are computed the way Python computes them.  The repository  *)
(* and the completion service are the environment: each git command has an *)
(* outcome (stdout and return code, or a subprocess exception) and the     *)
(* completion call has an outcome (a response or an error), both chosen in *)
(* the initial state and fixed for the run of one process.                 *)
(***************************************************************************)
EXTENDS Integers, Sequences, FiniteSets, TLC

VARIABLES
    repo,          \* git command -> outcome of running it
    api_key,       \* value of OPENAI_API_KEY ("" when unset)
    argv,          \* sys.argv[1:], each argument a text
    template,      \* state of the file named by argv[2]
    service,       \* outcome of client.chat.completions.create
    diff_content,  \* argument handed to a formatter called on its own
    op,            \* operation that has run ("none" before)
    ret,           \* its return value (an optional text)
    raised,        \* TRUE when it ended with an uncaught exception
    gitLog,        \* git commands run, in order
    apiCalls,      \* completion calls made
    exitCode,      \* process exit status (-1 while no process has ended)
    printed        \* result text main() printed (None when it printed none)

vars == <<repo, api_key, argv, template, service, diff_content, op, ret,
          raised, gitLog, apiCalls, exitCode, printed>>

----------------------------------------------------------------------------
(* Bounds of the model                                                     *)

\* longest diff text handed to a formatter called on its own
MaxDiffLen == 11
\* longest raw response text of the completion service
MaxRespLen == 4

----------------------------------------------------------------------------
(* Python values                                                           *)

None == [isNone |-> TRUE, val |-> <<>>]
Some(s) == [isNone |-> FALSE, val |-> s]
\* not x for an Optional[str]
Falsy(x) == x.isNone \/ x.val = <<>>

\* characters str.strip() removes
Whitespace == {" ", "\t", "\n", "\r", "\f"}

RECURSIVE LStrip(_)
LStrip(s) ==
    IF s = <<>> THEN s
    ELSE IF Head(s) \in Whitespace THEN LStrip(Tail(s)) ELSE s

RECURSIVE RStrip(_)
RStrip(s) ==
    IF s = <<>> THEN s
    ELSE IF s[Len(s)] \in Whitespace THEN RStrip(SubSeq(s, 1, Len(s) - 1)) ELSE s

\* str.strip()
Strip(s) == RStrip(LStrip(s))

\* the grave accent U+0060, a character a TLA+ string literal cannot hold,
\* carried as this one text element
Backtick == "U+0060"

StartsWith(s, old) ==
    Len(s) >= Len(old) /\ SubSeq(s, 1, Len(old)) = old

\* a buggy replace that stops after the first occurrence
RECURSIVE StrReplaceFirstOnly(_, _, _)
StrReplaceFirstOnly(s, old, new) ==
    IF s = <<>> THEN s
    ELSE IF StartsWith(s, old)
         THEN new \o SubSeq(s, Len(old) + 1, Len(s))
         ELSE <<Head(s)>> \o StrReplaceFirstOnly(Tail(s), old, new)

\* str.replace(old, new) for a non-empty old: every non-overlapping
\* occurrence, scanning left to right
RECURSIVE StrReplace(_, _, _)
StrReplace(s, old, new) ==
    IF s = <<>> THEN s
    ELSE IF StartsWith(s, old)
         THEN new \o StrReplace(SubSeq(s, Len(old) + 1, Len(s)), old, new)
         ELSE <<Head(s)>> \o StrReplace(Tail(s), old, new)

Upper == <<"A", "B", "C", "D", "E", "F", "G", "H", "I", "J", "K", "L", "M",
           "N", "O", "P", "Q", "R", "S", "T", "U", "V", "W", "X", "Y", "Z">>
Lower == <<"a", "b", "c", "d", "e", "f", "g", "h", "i", "j", "k", "l", "m",
           "n", "o", "p", "q", "r", "s", "t", "u", "v", "w", "x", "y", "z">>

\* str.lower() on ASCII text
LowerChar(c) ==
    IF \E i \in 1..Len(Upper) : Upper[i] = c
    THEN Lower[CHOOSE i \in 1..Len(Upper) : Upper[i] = c]
    ELSE c
StrLower(s) == [i \in 1..Len(s) |-> LowerChar(s[i])]

----------------------------------------------------------------------------
(* Git commands and the repository                                         *)

CmdCurrentBranch == <<"git", "branch", "--show-current">>
CmdBranchList == <<"git", "branch", "-a">>
CmdDiff == <<"git", "diff">>
CmdDiffStaged == <<"git", "diff", "--staged">>
CmdDiffHeadPrev == <<"git", "diff", "HEAD~1">>
CmdStatus == <<"git", "status", "--porcelain">>
CmdInsideWorkTree == <<"git", "rev-parse", "--is-inside-work-tree">>
CmdDiffBase(base) == <<"git", "diff", base>>

base_branches == <<"main", "master", "origin/main", "origin/master">>

\* the trunk test with master forgotten
TrunkBranchesMainOnly == {<<"m", "a", "i", "n">>}
\* current_branch in ['main', 'master']
TrunkBranches == {<<"m", "a", "i", "n">>, <<"m", "a", "s", "t", "e", "r">>}

\* run_git_command: (stdout, returncode); an exception of subprocess.run
\* becomes ("", 1).  stderr only feeds the debug prints and is left out.
RunGitCommand(r, command) ==
    IF r[command].raises
    THEN [stdout |-> <<>>, code |-> 1]
    ELSE [stdout |-> r[command].stdout, code |-> r[command].returncode]

\* get_current_branch with the return code ignored
GetCurrentBranchAnyCode(r) ==
    [ret |-> Some(Strip(RunGitCommand(r, CmdCurrentBranch).stdout)),
     log |-> <<CmdCurrentBranch>>]

GetCurrentBranch(r) ==
    LET res == RunGitCommand(r, CmdCurrentBranch)
    IN [ret |-> IF res.code = 0 THEN Some(Strip(res.stdout)) ELSE None,
        log |-> <<CmdCurrentBranch>>]

\* get_staged_diff that takes whitespace-only output for a diff
GetStagedDiffNoStrip(r) ==
    LET res == RunGitCommand(r, CmdDiffStaged)
    IN [ret |-> IF res.code = 0 /\ res.stdout # <<>>
                THEN Some(res.stdout) ELSE None,
        log |-> <<CmdDiffStaged>>]

GetStagedDiff(r) ==
    LET res == RunGitCommand(r, CmdDiffStaged)
    IN [ret |-> IF res.code = 0 /\ Strip(res.stdout) # <<>>
                THEN Some(res.stdout) ELSE None,
        log |-> <<CmdDiffStaged>>]

\* the loop over base_branches that queries them last to first
RECURSIVE TryBaseBranchesReversed(_, _)
TryBaseBranchesReversed(r, bases) ==
    IF bases = <<>> THEN [ret |-> None, log |-> <<>>]
    ELSE LET base == bases[Len(bases)]
             res == RunGitCommand(r, CmdDiffBase(base))
         IN IF res.code = 0 /\ Strip(res.stdout) # <<>>
            THEN [ret |-> Some(res.stdout), log |-> <<CmdDiffBase(base)>>]
            ELSE LET rest == TryBaseBranchesReversed(
                                 r, SubSeq(bases, 1, Len(bases) - 1))
                 IN [ret |-> rest.ret,
                     log |-> <<CmdDiffBase(base)>> \o rest.log]

\* the loop for base in base_branches of get_diff_with_main: the first
\* candidate whose diff succeeds and is non-blank is returned at once
RECURSIVE TryBaseBranches(_, _)
TryBaseBranches(r, bases) ==
    IF bases = <<>> THEN [ret |-> None, log |-> <<>>]
    ELSE LET base == Head(bases)
             res == RunGitCommand(r, CmdDiffBase(base))
         IN IF res.code = 0 /\ Strip(res.stdout) # <<>>
            THEN [ret |-> Some(res.stdout), log |-> <<CmdDiffBase(base)>>]
            ELSE LET rest == TryBaseBranches(r, Tail(bases))
                 IN [ret |-> rest.ret,
                     log |-> <<CmdDiffBase(base)>> \o rest.log]

\* the HEAD~1 fallback with the return code ignored
TryHeadPrevAnyCode(r) ==
    LET res == RunGitCommand(r, CmdDiffHeadPrev)
    IN [ret |-> IF Strip(res.stdout) # <<>> THEN Some(res.stdout) ELSE None,
        log |-> <<CmdDiffHeadPrev>>]

\* the fallback of get_diff_with_main: diff against HEAD~1
TryHeadPrev(r) ==
    LET res == RunGitCommand(r, CmdDiffHeadPrev)
    IN [ret |-> IF res.code = 0 /\ Strip(res.stdout) # <<>>
                THEN Some(res.stdout) ELSE None,
        log |-> <<CmdDiffHeadPrev>>]

\* git diff of the working tree, as both resolvers run it on main/master
UncommittedDiff(r) ==
    LET res == RunGitCommand(r, CmdDiff)
    IN [ret |-> IF res.code = 0 /\ Strip(res.stdout) # <<>>
                THEN Some(res.stdout) ELSE None,
        log |-> <<CmdDiff>>]

GetDiffWithMain(r) ==
    LET cb == GetCurrentBranch(r)
    IN IF Falsy(cb.ret) THEN [ret |-> None, log |-> cb.log]
       ELSE IF cb.ret.val \in TrunkBranches
       THEN LET u == UncommittedDiff(r)
            IN [ret |-> u.ret, log |-> cb.log \o u.log]
       ELSE LET t == TryBaseBranches(r, base_branches)
            IN IF ~t.ret.isNone
               THEN [ret |-> t.ret, log |-> cb.log \o t.log]
               ELSE LET h == TryHeadPrev(r)
                    IN [ret |-> h.ret, log |-> cb.log \o t.log \o h.log]

GetDiffForBranchNaming(r) ==
    LET cb == GetCurrentBranch(r)
    IN IF Falsy(cb.ret) THEN [ret |-> None, log |-> cb.log]
       ELSE IF cb.ret.val \in TrunkBranches
       THEN LET u == UncommittedDiff(r)
            IN IF ~u.ret.isNone
               THEN [ret |-> u.ret, log |-> cb.log \o u.log]
               ELSE LET s == GetStagedDiff(r)
                    IN [ret |-> IF ~Falsy(s.ret) THEN s.ret ELSE None,
                        log |-> cb.log \o u.log \o s.log]
       ELSE LET m == GetDiffWithMain(r)
            IN [ret |-> m.ret, log |-> cb.log \o m.log]

----------------------------------------------------------------------------
(* Prompt/response formatters                                              *)

\* len(diff_content.strip()) < 10
MinDiffLen == 10

TooShortNotice ==
    <<"E", "r", "r", "o", "r", ":", " ", "D", "i", "f", "f", " ", "c", "o",
      "n", "t", "e", "n", "t", " ", "i", "s", " ", "t", "o", "o", " ", "s",
      "h", "o", "r", "t", " ", "o", "r", " ", "e", "m", "p", "t", "y", " ",
      "t", "o", " ", "a", "n", "a", "l", "y", "z", "e", ".">>

ErrorPrefix ==
    <<"A", "n", " ", "e", "r", "r", "o", "r", " ", "o", "c", "c", "u", "r",
      "r", "e", "d", ":", " ">>

\* the guard with the diff measured untrimmed
TooShortNoStrip(d) == d = <<>> \/ Len(d) < MinDiffLen

\* not diff_content or len(diff_content.strip()) < 10
TooShort(d) == d = <<>> \/ Len(Strip(d)) < MinDiffLen

\* str(e) of the exceptions the extraction of the response can raise
AttributeErrorMessage ==
    <<"'", "N", "o", "n", "e", "T", "y", "p", "e", "'", " ", "o", "b", "j",
      "e", "c", "t", " ", "h", "a", "s", " ", "n", "o", " ", "a", "t", "t",
      "r", "i", "b", "u", "t", "e", " ", "'", "s", "t", "r", "i", "p", "'">>
IndexErrorMessage ==
    <<"l", "i", "s", "t", " ", "i", "n", "d", "e", "x", " ", "o", "u", "t",
      " ", "o", "f", " ", "r", "a", "n", "g", "e">>

\* response = client.chat.completions.create(...) followed by
\* response.choices[0].message.content.strip(): the stripped text, or the
\* exception raised on the way (the call failing, an empty choices list, a
\* message without content)
Completion(svc) ==
    CASE svc.kind = "ok" ->
           [exc |-> FALSE, val |-> Strip(svc.content),
            error |-> [type |-> "none", message |-> <<>>]]
      [] svc.kind = "api_error" ->
           [exc |-> TRUE, val |-> <<>>,
            error |-> [type |-> "APIError", message |-> svc.message]]
      [] svc.kind = "no_choices" ->
           [exc |-> TRUE, val |-> <<>>,
            error |-> [type |-> "IndexError", message |-> IndexErrorMessage]]
      [] svc.kind = "no_content" ->
           [exc |-> TRUE, val |-> <<>>,
            error |-> [type |-> "AttributeError",
                       message |-> AttributeErrorMessage]]

\* a handler that catches the client's own errors only
OnExceptionApiErrorOnly(e) ==
    IF e.type = "APIError"
    THEN [raised |-> FALSE, ret |-> ErrorPrefix \o e.message]
    ELSE [raised |-> TRUE, ret |-> <<>>]

\* except Exception as e: return f"An error occurred: {e}"
OnException(e) == [raised |-> FALSE, ret |-> ErrorPrefix \o e.message]

\* the commit clean-up without its second replace
CleanCommitStarPairsOnly(t) == StrReplace(t, <<"*", "*">>, <<>>)

\* the two replace calls of suggest_commit_message: two stars, then one
\* star, each by the empty string
CleanCommit(t) == StrReplace(StrReplace(t, <<"*", "*">>, <<>>), <<"*">>, <<>>)

\* the three replace calls of suggest_branch_name: two stars, one star,
\* backtick, each by the empty string
CleanBranch(t) ==
    StrReplace(StrReplace(StrReplace(t, <<"*", "*">>, <<>>), <<"*">>, <<>>),
               <<Backtick>>, <<>>)

\* Each formatter yields [raised, ret, calls]: whether an exception left
\* it, the text returned, and the completion calls made.  The prompt text
\* is not carried: the service answers as it chooses whatever is sent.
SuggestBranchName(d, svc) ==
    IF TooShort(d) THEN [raised |-> FALSE, ret |-> TooShortNotice, calls |-> 0]
    ELSE LET c == Completion(svc)
             h == OnException(c.error)
         IN IF c.exc
            THEN [raised |-> h.raised, ret |-> h.ret, calls |-> 1]
            ELSE [raised |-> FALSE, ret |-> CleanBranch(c.val), calls |-> 1]

GeneratePrSummary(d, svc) ==
    IF TooShort(d) THEN [raised |-> FALSE, ret |-> TooShortNotice, calls |-> 0]
    ELSE LET c == Completion(svc)
             h == OnException(c.error)
         IN IF c.exc
            THEN [raised |-> h.raised, ret |-> h.ret, calls |-> 1]
            ELSE [raised |-> FALSE, ret |-> c.val, calls |-> 1]

SuggestCommitMessage(d, svc) ==
    IF TooShort(d) THEN [raised |-> FALSE, ret |-> TooShortNotice, calls |-> 0]
    ELSE LET c == Completion(svc)
             h == OnException(c.error)
         IN IF c.exc
            THEN [raised |-> h.raised, ret |-> h.ret, calls |-> 1]
            ELSE [raised |-> FALSE, ret |-> CleanCommit(c.val), calls |-> 1]

----------------------------------------------------------------------------
(* main(): command dispatch                                                *)

\* What one process run leaves behind: exit status, git commands run,
\* completion calls made, result text printed, and whether it died of an
\* uncaught exception (which Python reports with exit status 1).
Exit(status, log) ==
    [exit |-> status, log |-> log, calls |-> 0, printed |-> None,
     raised |-> FALSE]
Crash(log, calls) ==
    [exit |-> 1, log |-> log, calls |-> calls, printed |-> None,
     raised |-> TRUE]
Printed(text, log, calls) ==
    [exit |-> 0, log |-> log, calls |-> calls, printed |-> Some(text),
     raised |-> FALSE]

\* the debug command without the exit on a failing rev-parse
RunDebugNoRepoCheck(r) ==
    Exit(0, <<CmdInsideWorkTree>> \o GetCurrentBranch(r).log
            \o <<CmdBranchList, CmdStatus>> \o GetDiffWithMain(r).log
            \o GetStagedDiff(r).log)

\* `command == "debug"`
RunDebug(r) ==
    IF RunGitCommand(r, CmdInsideWorkTree).code # 0
    THEN Exit(1, <<CmdInsideWorkTree>>)
    ELSE Exit(0, <<CmdInsideWorkTree>> \o GetCurrentBranch(r).log
                 \o <<CmdBranchList, CmdStatus>> \o GetDiffWithMain(r).log
                 \o GetStagedDiff(r).log)

\* `command == "branch"`
RunBranch(r, svc) ==
    LET d == GetDiffForBranchNaming(r)
    IN IF Falsy(d.ret) THEN Exit(1, d.log)
       ELSE LET s == SuggestBranchName(d.ret.val, svc)
            IN IF s.raised THEN Crash(d.log, s.calls)
               ELSE Printed(s.ret, d.log, s.calls)

\* `command == "pr"`; the template file, when argv names one that exists,
\* is read before the summary is requested, and reading it may raise
RunPr(r, svc, args, tmpl) ==
    LET d == GetDiffWithMain(r)
    IN IF Falsy(d.ret) THEN Exit(1, d.log)
       ELSE IF Len(args) > 1 /\ tmpl = "unreadable" THEN Crash(d.log, 0)
       ELSE LET s == GeneratePrSummary(d.ret.val, svc)
            IN IF s.raised THEN Crash(d.log, s.calls)
               ELSE Printed(s.ret, d.log, s.calls)

\* `command == "commit"`
RunCommit(r, svc) ==
    LET d == GetStagedDiff(r)
    IN IF Falsy(d.ret) THEN Exit(1, d.log)
       ELSE LET s == SuggestCommitMessage(d.ret.val, svc)
            IN IF s.raised THEN Crash(d.log, s.calls)
               ELSE Printed(s.ret, d.log, s.calls)

\* `command = sys.argv[1].lower()`
Command(args) == StrLower(args[1])

WordBranch == <<"b", "r", "a", "n", "c", "h">>
WordPr == <<"p", "r">>
WordCommit == <<"c", "o", "m", "m", "i", "t">>
WordDebug == <<"d", "e", "b", "u", "g">>

----------------------------------------------------------------------------
(* The environment: repositories, service outcomes, inputs                 *)

\* outcomes of subprocess.run
Ok(out) == [raises |-> FALSE, stdout |-> out, returncode |-> 0]
Failed(out) == [raises |-> FALSE, stdout |-> out, returncode |-> 128]
Raises == [raises |-> TRUE, stdout |-> <<>>, returncode |-> 0]

BaseCmds == {CmdDiffBase(base_branches[i]) : i \in 1..Len(base_branches)}
LocalDiffCmds == {CmdDiff, CmdDiffStaged, CmdDiffHeadPrev}
DiffCmds == LocalDiffCmds \cup BaseCmds
Commands ==
    DiffCmds \cup {CmdCurrentBranch, CmdBranchList, CmdStatus,
                   CmdInsideWorkTree}

\* one character per diff command, so that the output of each is its own
Tag(c) ==
    CASE c = CmdDiff -> "u"
      [] c = CmdDiffStaged -> "s"
      [] c = CmdDiffHeadPrev -> "h"
      [] c = CmdDiffBase("main") -> "1"
      [] c = CmdDiffBase("master") -> "2"
      [] c = CmdDiffBase("origin/main") -> "3"
      [] c = CmdDiffBase("origin/master") -> "4"

\* a diff of n + 2 characters and a newline
Patch(c, n) == <<"+", Tag(c)>> \o [i \in 1..n |-> "x"] \o <<"\n">>

Blank == <<" ", "\n">>

\* what a diff command can do: print nothing, print blanks, print a diff,
\* fail while printing one, or not run at all
DiffOutcome(c, k, n) ==
    CASE k = 1 -> Ok(<<>>)
      [] k = 2 -> Ok(Blank)
      [] k = 3 -> Ok(Patch(c, n))
      [] k = 4 -> Failed(Patch(c, n))
      [] k = 5 -> Raises

BranchMain == <<"m", "a", "i", "n">>
BranchMaster == <<"m", "a", "s", "t", "e", "r">>
BranchFeature == <<"f", "e", "a", "t", "u", "r", "e", "/", "x">>

\* what git branch --show-current can do: name the branch, print nothing
\* (detached HEAD), fail with output, or not run
BranchOutcomes ==
    {Ok(BranchMain \o <<"\n">>), Ok(BranchMaster \o <<"\n">>),
     Ok(BranchFeature \o <<"\n">>), Ok(<<>>),
     Failed(BranchFeature \o <<"\n">>), Raises}

RepoOf(b, f, n, rev) ==
    [c \in Commands |->
        IF c = CmdCurrentBranch THEN b
        ELSE IF c \in DiffCmds THEN DiffOutcome(c, f[c], n)
        ELSE IF c = CmdInsideWorkTree THEN rev
        ELSE Ok(<<>>)]

ServiceOk(text) == [kind |-> "ok", content |-> text, message |-> <<>>]
ServiceError ==
    [kind |-> "api_error", content |-> <<>>,
     message |-> <<"C", "o", "n", "n", "e", "c", "t", "i", "o", "n", " ",
                   "e", "r", "r", "o", "r", ".">>]
ServiceNoChoices == [kind |-> "no_choices", content |-> <<>>, message |-> <<>>]
ServiceNoContent == [kind |-> "no_content", content |-> <<>>, message |-> <<>>]

Texts(alphabet, n) == UNION {[1..k -> alphabet] : k \in 0..n}

----------------------------------------------------------------------------
(* The resolver called on its own                                          *)

InitResolver ==
    /\ \E b \in BranchOutcomes, f \in [LocalDiffCmds -> 1..5],
          g \in [BaseCmds -> 2..5] :
         repo = RepoOf(b, f @@ g, 0, Ok(<<>>))
    /\ api_key = None
    /\ argv = <<>>
    /\ template = "missing"
    /\ service = ServiceNoChoices
    /\ diff_content = <<>>
    /\ op = "none"
    /\ ret = None
    /\ raised = FALSE
    /\ gitLog = <<>>
    /\ apiCalls = 0
    /\ exitCode = -1
    /\ printed = None

Returned(name, res) ==
    /\ op = "none"
    /\ op' = name
    /\ ret' = res.ret
    /\ gitLog' = res.log
    /\ UNCHANGED <<repo, api_key, argv, template, service, diff_content,
                   raised, apiCalls, exitCode, printed>>

CallGetDiffWithMain == Returned("get_diff_with_main", GetDiffWithMain(repo))

CallGetDiffForBranchNaming ==
    Returned("get_diff_for_branch_naming", GetDiffForBranchNaming(repo))

CallGetStagedDiff == Returned("get_staged_diff", GetStagedDiff(repo))

NextResolver ==
    \/ CallGetDiffWithMain
    \/ CallGetDiffForBranchNaming
    \/ CallGetStagedDiff

SpecResolver == InitResolver /\ [][NextResolver]_vars

----------------------------------------------------------------------------
(* The formatters called on their own                                      *)

\* a diff long enough to be sent
LongDiff == Patch(CmdDiff, MinDiffLen)

ResponseAlphabet == {"*", Backtick, "a", " "}

InitFormatter ==
    /\ \/ /\ diff_content \in Texts({" ", "x"}, MaxDiffLen)
          /\ service \in {ServiceOk(<<"*", "o", "k", "*">>), ServiceError}
       \/ /\ diff_content = LongDiff
          /\ service \in
                {ServiceOk(t) : t \in Texts(ResponseAlphabet, MaxRespLen)}
                \cup {ServiceError, ServiceNoChoices, ServiceNoContent}
    /\ repo = RepoOf(Raises, [c \in DiffCmds |-> 5], 0, Raises)
    /\ api_key = Some(<<"s", "k">>)
    /\ argv = <<>>
    /\ template = "missing"
    /\ op = "none"
    /\ ret = None
    /\ raised = FALSE
    /\ gitLog = <<>>
    /\ apiCalls = 0
    /\ exitCode = -1
    /\ printed = None

Formatted(name, res) ==
    /\ op = "none"
    /\ op' = name
    /\ ret' = IF res.raised THEN None ELSE Some(res.ret)
    /\ raised' = res.raised
    /\ apiCalls' = res.calls
    /\ UNCHANGED <<repo, api_key, argv, template, service, diff_content,
                   gitLog, exitCode, printed>>

CallSuggestBranchName ==
    Formatted("suggest_branch_name", SuggestBranchName(diff_content, service))

CallGeneratePrSummary ==
    Formatted("generate_pr_summary", GeneratePrSummary(diff_content, service))

CallSuggestCommitMessage ==
    Formatted("suggest_commit_message",
              SuggestCommitMessage(diff_content, service))

NextFormatter ==
    \/ CallSuggestBranchName
    \/ CallGeneratePrSummary
    \/ CallSuggestCommitMessage

SpecFormatter == InitFormatter /\ [][NextFormatter]_vars

----------------------------------------------------------------------------
(* One run of the command line                                             *)

ArgvChoices ==
    {<<>>, <<WordBranch>>, <<<<"B", "r", "a", "n", "c", "h">>>>, <<WordPr>>,
     <<WordPr, <<"t", ".", "m", "d">>>>, <<WordCommit>>, <<WordDebug>>,
     <<<<"d", "e", "p", "l", "o", "y">>>>}

InitMain ==
    /\ api_key \in {None, Some(<<>>), Some(<<"s", "k">>)}
    /\ argv \in ArgvChoices
    /\ template \in IF Len(argv) > 1
                    THEN {"missing", "readable", "unreadable"}
                    ELSE {"missing"}
    /\ service \in {ServiceOk(<<" ", "*", "*", "o", "k", "*", "*", "\n">>),
                    ServiceError, ServiceNoChoices, ServiceNoContent}
    /\ \E b \in {Ok(BranchMain \o <<"\n">>), Ok(BranchFeature \o <<"\n">>),
                 Failed(<<>>)},
          f \in [DiffCmds -> {2, 3}],
          n \in {MinDiffLen - 3, MinDiffLen - 2},
          rev \in {Ok(<<"t", "r", "u", "e", "\n">>), Failed(<<>>)} :
         repo = RepoOf(b, f, n, rev)
    /\ diff_content = <<>>
    /\ op = "none"
    /\ ret = None
    /\ raised = FALSE
    /\ gitLog = <<>>
    /\ apiCalls = 0
    /\ exitCode = -1
    /\ printed = None

Ended(res) ==
    /\ op = "none"
    /\ op' = "main"
    /\ exitCode' = res.exit
    /\ gitLog' = res.log
    /\ apiCalls' = res.calls
    /\ printed' = res.printed
    /\ raised' = res.raised
    /\ UNCHANGED <<repo, api_key, argv, template, service, diff_content,
                   ret>>

MainNoKey == Falsy(api_key) /\ Ended(Exit(1, <<>>))

MainUsage == ~Falsy(api_key) /\ Len(argv) < 1 /\ Ended(Exit(1, <<>>))

MainDebug ==
    /\ ~Falsy(api_key) /\ Len(argv) >= 1
    /\ Command(argv) = WordDebug
    /\ Ended(RunDebug(repo))

MainBranch ==
    /\ ~Falsy(api_key) /\ Len(argv) >= 1
    /\ Command(argv) = WordBranch
    /\ Ended(RunBranch(repo, service))

MainPr ==
    /\ ~Falsy(api_key) /\ Len(argv) >= 1
    /\ Command(argv) = WordPr
    /\ Ended(RunPr(repo, service, argv, template))

MainCommit ==
    /\ ~Falsy(api_key) /\ Len(argv) >= 1
    /\ Command(argv) = WordCommit
    /\ Ended(RunCommit(repo, service))

MainUnknown ==
    /\ ~Falsy(api_key) /\ Len(argv) >= 1
    /\ Command(argv) \notin {WordDebug, WordBranch, WordPr, WordCommit}
    /\ Ended(Exit(1, <<>>))

NextMain ==
    \/ MainNoKey
    \/ MainUsage
    \/ MainDebug
    \/ MainBranch
    \/ MainPr
    \/ MainCommit
    \/ MainUnknown

SpecMain == InitMain /\ [][NextMain]_vars

----------------------------------------------------------------------------
(* Vocabulary of the properties, stated on the repository itself           *)

NonBlank(t) == \E i \in 1..Len(t) : t[i] \notin Whitespace

\* the command runs, exits with status 0 and prints a non-blank text
Succeeds(c) ==
    /\ ~repo[c].raises
    /\ repo[c].returncode = 0
    /\ NonBlank(repo[c].stdout)

BranchDetermined == Succeeds(CmdCurrentBranch)
OnTrunk ==
    /\ BranchDetermined
    /\ Strip(repo[CmdCurrentBranch].stdout) \in {BranchMain, BranchMaster}
OffTrunk == BranchDetermined /\ ~OnTrunk

\* the candidates in the order the specification gives
ClaimedOrder ==
    << <<"git", "diff", "main">>, <<"git", "diff", "master">>,
       <<"git", "diff", "origin/main">>, <<"git", "diff", "origin/master">> >>

IsDiffCmd(c) == c \in DiffCmds
DiffQueries == SelectSeq(gitLog, IsDiffCmd)
Queried(c) == \E i \in 1..Len(gitLog) : gitLog[i] = c
SucceedingCandidates == {i \in 1..4 : Succeeds(ClaimedOrder[i])}
FirstSucceeding ==
    CHOOSE i \in SucceedingCandidates :
        \A j \in SucceedingCandidates : i <= j
MainResolvers == {"get_diff_with_main", "get_diff_for_branch_naming"}

----------------------------------------------------------------------------
(* Properties of the resolver                                              *)

\* C1: off main/master, both resolvers query main, master, origin/main,
\* origin/master in that order, return the output of the first candidate
\* that succeeds with a non-blank diff, and query no candidate after it;
\* candidates that fail or print blanks are passed over.
C1_FirstCandidateWins ==
    (op \in MainResolvers /\ OffTrunk) =>
        IF SucceedingCandidates # {}
        THEN /\ ret = Some(repo[ClaimedOrder[FirstSucceeding]].stdout)
             /\ DiffQueries = SubSeq(ClaimedOrder, 1, FirstSucceeding)
        ELSE /\ Len(DiffQueries) >= 4
             /\ SubSeq(DiffQueries, 1, 4) = ClaimedOrder

\* main fails while printing, master prints blanks, origin/main and
\* origin/master both have a diff: origin/main is returned
C1_Witness ==
    /\ op = "get_diff_for_branch_naming"
    /\ OffTrunk
    /\ repo[ClaimedOrder[1]] = Failed(Patch(ClaimedOrder[1], 0))
    /\ repo[ClaimedOrder[2]] = Ok(Blank)
    /\ Succeeds(ClaimedOrder[3])
    /\ Succeeds(ClaimedOrder[4])
    /\ ret = Some(Patch(ClaimedOrder[3], 0))
    /\ DiffQueries = SubSeq(ClaimedOrder, 1, 3)

\* C2: off main/master, git diff HEAD~1 is run exactly when none of the
\* four candidates succeeds with a non-blank diff, and then after all four;
\* its output is returned if it succeeds non-blank, otherwise None is.
C2_HeadPrevFallback ==
    (op \in MainResolvers /\ OffTrunk) =>
        /\ Queried(CmdDiffHeadPrev) <=> SucceedingCandidates = {}
        /\ Queried(CmdDiffHeadPrev) =>
               DiffQueries = ClaimedOrder \o <<CmdDiffHeadPrev>>
        /\ SucceedingCandidates = {} =>
               ret = IF Succeeds(CmdDiffHeadPrev)
                     THEN Some(repo[CmdDiffHeadPrev].stdout) ELSE None

\* no candidate has a diff (two fail, one cannot run, one prints blanks)
\* and HEAD~1 has one
C2_Witness ==
    /\ op = "get_diff_with_main"
    /\ OffTrunk
    /\ repo[ClaimedOrder[1]] = Failed(Patch(ClaimedOrder[1], 0))
    /\ repo[ClaimedOrder[2]] = Raises
    /\ repo[ClaimedOrder[3]] = Ok(Blank)
    /\ repo[ClaimedOrder[4]] = Failed(Patch(ClaimedOrder[4], 0))
    /\ ret = Some(Patch(CmdDiffHeadPrev, 0))
    /\ DiffQueries = ClaimedOrder \o <<CmdDiffHeadPrev>>

\* C3: on main or master, get_diff_for_branch_naming returns the unstaged
\* diff if non-blank, else the staged diff if non-blank, else None, and
\* runs no diff against a candidate base or HEAD~1.
C3_TrunkBranchNaming ==
    (op = "get_diff_for_branch_naming" /\ OnTrunk) =>
        /\ ret = IF Succeeds(CmdDiff) THEN Some(repo[CmdDiff].stdout)
                 ELSE IF Succeeds(CmdDiffStaged)
                 THEN Some(repo[CmdDiffStaged].stdout)
                 ELSE None
        /\ \A c \in BaseCmds \cup {CmdDiffHeadPrev} : ~Queried(c)

\* on main with blank unstaged output and blank staged output, while every
\* candidate and HEAD~1 would have a diff: None
C3_Witness ==
    /\ op = "get_diff_for_branch_naming"
    /\ OnTrunk
    /\ repo[CmdDiff] = Ok(Blank)
    /\ repo[CmdDiffStaged] = Ok(Blank)
    /\ \A c \in BaseCmds \cup {CmdDiffHeadPrev} : Succeeds(c)
    /\ ret = None
    /\ gitLog = <<CmdCurrentBranch, CmdDiff, CmdDiffStaged>>

\* C4: on main or master, get_diff_with_main returns the unstaged diff if
\* non-blank and None otherwise, and runs nothing but the branch query and
\* git diff, whatever the staged changes, the candidates and HEAD~1 hold.
C4_TrunkDiffWithMain ==
    (op = "get_diff_with_main" /\ OnTrunk) =>
        /\ ret = IF Succeeds(CmdDiff) THEN Some(repo[CmdDiff].stdout)
                 ELSE None
        /\ gitLog = <<CmdCurrentBranch, CmdDiff>>

\* on master with no unstaged diff, while the staged diff, every candidate
\* and HEAD~1 would have one: None
C4_Witness ==
    /\ op = "get_diff_with_main"
    /\ Strip(repo[CmdCurrentBranch].stdout) = BranchMaster
    /\ OnTrunk
    /\ repo[CmdDiff] = Ok(<<>>)
    /\ \A c \in BaseCmds \cup {CmdDiffHeadPrev, CmdDiffStaged} : Succeeds(c)
    /\ ret = None

\* the repository in which every diff command that fails or cannot run
\* succeeds with empty output instead
FailuresAsEmpty(r) ==
    [c \in Commands |->
        IF c \in DiffCmds /\ (r[c].raises \/ r[c].returncode # 0)
        THEN Ok(<<>>) ELSE r[c]]

ResolverResult(name, r) ==
    CASE name = "get_diff_with_main" -> GetDiffWithMain(r)
      [] name = "get_diff_for_branch_naming" -> GetDiffForBranchNaming(r)
      [] name = "get_staged_diff" -> GetStagedDiff(r)

\* C5: when the branch query fails, cannot run or names no branch, both
\* resolvers return None having run no diff command; and a diff command
\* that fails or cannot run changes neither the result nor the commands
\* run, compared with the same command succeeding with empty output.
C5_OnlyBranchFailureIsFatal ==
    op \in MainResolvers =>
        /\ ~BranchDetermined => (ret = None /\ gitLog = <<CmdCurrentBranch>>)
        /\ ret = ResolverResult(op, FailuresAsEmpty(repo)).ret
        /\ gitLog = ResolverResult(op, FailuresAsEmpty(repo)).log

\* the branch query fails although it prints a branch name, while every
\* diff command would have a diff
C5_Witness ==
    /\ op = "get_diff_for_branch_naming"
    /\ repo[CmdCurrentBranch] = Failed(BranchFeature \o <<"\n">>)
    /\ \A c \in DiffCmds : Succeeds(c)
    /\ ret = None
    /\ gitLog = <<CmdCurrentBranch>>

----------------------------------------------------------------------------
(* Properties of the formatters                                            *)

FormatterOps ==
    {"suggest_branch_name", "generate_pr_summary", "suggest_commit_message"}

\* length of a text once leading and trailing whitespace is dropped,
\* counted from its first to its last non-whitespace character
TrimmedLen(t) ==
    IF ~NonBlank(t) THEN 0
    ELSE LET solid == {i \in 1..Len(t) : t[i] \notin Whitespace}
             first == CHOOSE i \in solid : \A j \in solid : i <= j
             last == CHOOSE i \in solid : \A j \in solid : j <= i
         IN last - first + 1

Contains(t, ch) == \E i \in 1..Len(t) : t[i] = ch

\* C6: each formatter, given a diff of trimmed length below 10, returns
\* the too-short notice and makes no completion call; given a diff of
\* trimmed length 10 or more it makes exactly one.
C6_ShortDiffSkipsService ==
    op \in FormatterOps =>
        /\ TrimmedLen(diff_content) < 10 =>
               (ret = Some(TooShortNotice) /\ apiCalls = 0 /\ ~raised)
        /\ TrimmedLen(diff_content) >= 10 => apiCalls = 1

\* eleven characters of which nine remain after trimming
C6_Witness ==
    /\ op = "generate_pr_summary"
    /\ diff_content = <<" ", "x", "x", "x", "x", " ", "x", "x", "x", "x", " ">>
    /\ ret = Some(TooShortNotice)
    /\ apiCalls = 0

Answered == apiCalls = 1 /\ service.kind = "ok" /\ ~raised

\* C7 as stated: after a successful completion call the text returned by
\* any of the three formatters holds no star, and none a backtick for
\* branch suggestions.
C7_AllThreeStripMarkers ==
    (op \in FormatterOps /\ Answered) =>
        /\ ~Contains(ret.val, "*")
        /\ op = "suggest_branch_name" => ~Contains(ret.val, Backtick)

\* C7 as amended: the text returned by suggest_branch_name holds no star
\* and no backtick, that of suggest_commit_message no star, while
\* generate_pr_summary returns the response trimmed of surrounding
\* whitespace with every star and backtick of it kept.
C7_BranchAndCommitStripMarkers ==
    (op \in FormatterOps /\ Answered) =>
        /\ op = "suggest_branch_name" =>
               (~Contains(ret.val, "*") /\ ~Contains(ret.val, Backtick))
        /\ op = "suggest_commit_message" => ~Contains(ret.val, "*")
        /\ op = "generate_pr_summary" => ret.val = Strip(service.content)

\* three stars in a row, of which replacing pairs alone leaves one
C7_Witness ==
    /\ op = "suggest_commit_message"
    /\ service = ServiceOk(<<"*", "*", "*", "a">>)
    /\ apiCalls = 1
    /\ ret = Some(<<"a">>)

\* C8: cleaning a response twice gives what cleaning it once gives, for
\* the clean-up of branch suggestions and that of commit messages, both on
\* the raw response and on the text the formatter returned.
C8_CleanIsIdempotent ==
    /\ service.kind = "ok" =>
           /\ CleanBranch(CleanBranch(service.content))
                  = CleanBranch(service.content)
           /\ CleanCommit(CleanCommit(service.content))
                  = CleanCommit(service.content)
    /\ (op = "suggest_branch_name" /\ Answered) =>
           CleanBranch(ret.val) = ret.val
    /\ (op = "suggest_commit_message" /\ Answered) =>
           CleanCommit(ret.val) = ret.val

\* two stars that become adjacent once the backtick between them is gone
C8_Witness ==
    /\ op = "suggest_branch_name"
    /\ service = ServiceOk(<<"*", Backtick, "*", "a">>)
    /\ apiCalls = 1
    /\ ret = Some(<<"a">>)

----------------------------------------------------------------------------
(* Properties of the command line                                          *)

KeyMissing == api_key = None \/ api_key = Some(<<>>)
Runs(word) == ~KeyMissing /\ argv # <<>> /\ StrLower(argv[1]) = word

\* str(e) of what the completion call, or reading its response, raised
ErrorText ==
    CASE service.kind = "api_error" -> service.message
      [] service.kind = "no_choices" -> IndexErrorMessage
      [] service.kind = "no_content" -> AttributeErrorMessage
      [] OTHER -> <<>>

\* C9: when the completion call, or reading its response, raises, the
\* formatter returns An error occurred: followed by the message, no
\* exception leaves it, and main prints that text and ends normally.
C9_ServiceErrorsBecomeText ==
    (op = "main" /\ apiCalls = 1 /\ service.kind # "ok") =>
        /\ ~raised
        /\ printed = Some(ErrorPrefix \o ErrorText)
        /\ exitCode = 0

\* the commit command when the response carries no content
C9_Witness ==
    /\ op = "main"
    /\ Runs(WordCommit)
    /\ service = ServiceNoContent
    /\ apiCalls = 1
    /\ printed = Some(ErrorPrefix \o AttributeErrorMessage)
    /\ exitCode = 0

\* no diff for get_diff_with_main, read off the repository
NoDiffWithMain ==
    \/ ~BranchDetermined
    \/ OnTrunk /\ ~Succeeds(CmdDiff)
    \/ OffTrunk /\ SucceedingCandidates = {} /\ ~Succeeds(CmdDiffHeadPrev)

\* no diff for get_diff_for_branch_naming, read off the repository
NoDiffForBranchNaming ==
    \/ ~BranchDetermined
    \/ OnTrunk /\ ~Succeeds(CmdDiff) /\ ~Succeeds(CmdDiffStaged)
    \/ OffTrunk /\ SucceedingCandidates = {} /\ ~Succeeds(CmdDiffHeadPrev)

FailsQuietly == exitCode = 1 /\ apiCalls = 0

\* C10: a run makes at most one completion call, and ends with status 1
\* without any completion call when the key is missing (then without any
\* git command either), when no or an unknown command is given, when
\* branch or pr finds no diff, when commit finds no staged diff, and when
\* debug is run outside a repository; debug never makes a completion call.
C10_ExitCodes ==
    op = "main" =>
        /\ apiCalls <= 1
        /\ KeyMissing => (FailsQuietly /\ gitLog = <<>>)
        /\ (~KeyMissing /\ argv = <<>>) => FailsQuietly
        /\ (~KeyMissing /\ argv # <<>>
              /\ StrLower(argv[1])
                   \notin {WordBranch, WordPr, WordCommit, WordDebug})
               => FailsQuietly
        /\ (Runs(WordBranch) /\ NoDiffForBranchNaming) => FailsQuietly
        /\ (Runs(WordPr) /\ NoDiffWithMain) => FailsQuietly
        /\ (Runs(WordCommit) /\ ~Succeeds(CmdDiffStaged)) => FailsQuietly
        /\ (Runs(WordDebug) /\ ~Succeeds(CmdInsideWorkTree)) => FailsQuietly
        /\ Runs(WordDebug) => apiCalls = 0

\* debug outside a repository stops after the rev-parse query
C10_Witness ==
    /\ op = "main"
    /\ Runs(WordDebug)
    /\ repo[CmdInsideWorkTree] = Failed(<<>>)
    /\ exitCode = 1
    /\ apiCalls = 0
    /\ gitLog = <<CmdInsideWorkTree>>

====
